---------------------------- MODULE Spec2Model ----------------------------
(***************************************************************************)
(* Model of the moderation engine of src/bot.py: the PostgreSQL tables     *)
(* user_captcha, flood_control, message_cooldown, user_warnings and        *)
(* chat_settings of one conversation, the handlers new_chat_members,      *)
(* handle_comments and handle_captcha_callback, and the periodic job       *)
(* check_captcha_expired.                                                  *)
(*                                                                         *)
(* Every handler is one action.  SQL statements are modelled by their     *)
(* meaning on the rows of the table; a statement the store cannot run      *)
(* takes the method's except branch, which is the branch taken when dbUp   *)
(* is FALSE.  "with conn:" of psycopg2 commits when the block is left      *)
(* without an exception, so the DELETE that opens check_captcha_passed is  *)
(* committed although the method never calls commit().                     *)
(*                                                                         *)
(* Time is an integer number of ticks, TicksPerSecond ticks to a second,   *)
(* read by the store (CURRENT_TIMESTAMP) and by the process                *)
(* (datetime.now()) from the same clock.                                   *)
(***************************************************************************)
EXTENDS Integers, Sequences, FiniteSets, TLC

\* ------------------------------------------------------------- bounds
MaxTicks == 1
MaxAttemptsSeen == 3
MaxCount == 8
MaxWarnSeen == 4
TicksPerSecond == 2
MaxRaceCalls == 4

\* -------------------------------------------------- program constants
CaptchaTimeoutMinutes == 10
DefaultMaxAttempts == 3
DefaultValidDays == 30
DefaultMaxWarnings == 3
DefaultMinAccountAgeDays == 1
FloodWindowSeconds == 10
FloodMaxMessages == 5
CooldownSeconds == 30
CooldownPurgeDays == 1
SpamLinkMinAgeDays == 7

\* the units of time, in ticks
Second == TicksPerSecond
Minute == 60 * Second
Day == 24 * 60 * Minute

\* the participants of the conversation, in the order the store returns
\* their rows
UserOrder == <<1, 2>>
Users == {UserOrder[i] : i \in DOMAIN UserOrder}

\* the chat_id of the conversation
ChatId == 1

\* CaptchaPolicy
PERSISTENT == "persistent"
TIME_BASED == "time_based"
ALWAYS == "always"

\* an absent row, and the None a getter returns
NoRec == [absent |-> TRUE]

\* getattr(member, 'date', None): the account age in whole days, or NoDate
NoDate == -1

\* the members that join: without a date, or with an account of today
AccountAges == {NoDate, 0}

\* the messages a member sends: a plain message, a comment of an old
\* account, a comment of a new account, a comment with a link
ContentKinds ==
    {[is_comment |-> FALSE, age |-> NoDate, spam |-> FALSE],
     [is_comment |-> TRUE, age |-> 10, spam |-> FALSE],
     [is_comment |-> TRUE, age |-> 0, spam |-> FALSE],
     [is_comment |-> TRUE, age |-> 2, spam |-> TRUE]}

PlainContent == {[is_comment |-> FALSE, age |-> NoDate, spam |-> FALSE]}

\* which Bot API call of a handler raises: none, or one of them
FailSets(Apis) == {{}} \cup {{a} : a \in Apis}

\* every call returns
NoFailure == {{}}

\* the workers that handle events side by side on the one store
Workers == {1, 2}

\* a worker that is in no storage call
Idle == [idle |-> TRUE]

\* no storage call has returned for a user yet
NoneHandled == [flood |-> 0, wrong |-> 0, warned |-> 0]

VARIABLES
    now,              \* the clock, in ticks
    ticks,            \* how many times the clock has advanced
    dbUp,             \* psycopg2.connect succeeds
    chat_settings,    \* the row of chat_settings of the conversation, or NoRec
    user_captcha,     \* user_id -> row of user_captcha, or NoRec
    flood_control,    \* user_id -> row of flood_control, or NoRec
    message_cooldown, \* user_id -> row of message_cooldown, or NoRec
    user_warnings,    \* user_id -> warnings_count, 0 when there is no row
    inChat,           \* user_id -> the user is a member of the conversation
    calls,            \* the Bot API calls the last handler made, in order
    logged,           \* the rows the last handler added to statistics
    passedAt,         \* history: user_id -> time of the last correct answer,
                      \* or -1, for the members whose answers are followed
    inflight,         \* worker -> the storage call the worker is in, with
                      \* what it has fetched, or Idle
    handled,          \* history: user_id -> how many storage calls of each
                      \* counter have returned for the user
    expired_captchas  \* the rows a running check_captcha_expired has
                      \* fetched and not handled yet, in order

vars == <<now, ticks, dbUp, chat_settings, user_captcha, flood_control,
          message_cooldown, user_warnings, inChat, calls, logged, passedAt,
          inflight, handled, expired_captchas>>

\* the variables of the storage calls that run side by side, and of the
\* job that runs side by side with the handlers
race == <<inflight, handled, expired_captchas>>

\* ------------------------------------------------------ chat_settings
DefaultSettings ==
    [chat_id |-> ChatId,
     enabled |-> TRUE,
     welcome_message |-> TRUE,
     min_account_age_days |-> DefaultMinAccountAgeDays,
     delete_service_messages |-> TRUE,
     max_warnings |-> DefaultMaxWarnings,
     anti_flood_enabled |-> TRUE,
     protect_comments |-> TRUE,
     message_cooldown_enabled |-> FALSE,
     captcha_enabled |-> TRUE,
     captcha_timeout_minutes |-> CaptchaTimeoutMinutes,
     captcha_max_attempts |-> DefaultMaxAttempts,
     captcha_policy |-> PERSISTENT,
     captcha_valid_days |-> DefaultValidDays]

\* a save whose INSERT is not committed: no row is stored
SaveChatSettings_NoCommit(settings) == NoRec

\* save_chat_settings: the row the INSERT ... ON CONFLICT leaves, column by
\* column from the dictionary
SaveChatSettings(settings) ==
    [chat_id |-> settings.chat_id,
     welcome_message |-> settings.welcome_message,
     min_account_age_days |-> settings.min_account_age_days,
     delete_service_messages |-> settings.delete_service_messages,
     enabled |-> settings.enabled,
     max_warnings |-> settings.max_warnings,
     anti_flood_enabled |-> settings.anti_flood_enabled,
     protect_comments |-> settings.protect_comments,
     message_cooldown_enabled |-> settings.message_cooldown_enabled,
     captcha_enabled |-> settings.captcha_enabled,
     captcha_timeout_minutes |-> settings.captcha_timeout_minutes,
     captcha_max_attempts |-> settings.captcha_max_attempts,
     captcha_policy |-> settings.captcha_policy,
     captcha_valid_days |-> settings.captcha_valid_days]

\* the dictionary get_chat_settings builds from the row it has fetched
LoadChatSettings(row) ==
    [chat_id |-> row.chat_id,
     welcome_message |-> row.welcome_message,
     min_account_age_days |-> row.min_account_age_days,
     delete_service_messages |-> row.delete_service_messages,
     enabled |-> row.enabled,
     max_warnings |-> row.max_warnings,
     anti_flood_enabled |-> row.anti_flood_enabled,
     protect_comments |-> row.protect_comments,
     message_cooldown_enabled |-> row.message_cooldown_enabled,
     captcha_enabled |-> row.captcha_enabled,
     captcha_timeout_minutes |-> row.captcha_timeout_minutes,
     captcha_max_attempts |-> row.captcha_max_attempts,
     captcha_policy |-> row.captcha_policy,
     captcha_valid_days |-> row.captcha_valid_days]

\* get_chat_settings: the row, the defaults (saved) when there is none,
\* None when the store fails.
GetChatSettings(row, up) ==
    IF ~up THEN [ret |-> NoRec, row |-> row]
    ELSE IF row # NoRec THEN [ret |-> LoadChatSettings(row), row |-> row]
    ELSE [ret |-> DefaultSettings, row |-> SaveChatSettings(DefaultSettings)]

\* a handler that ignores the enabled switch of the conversation
Unmoderated_Ignored(settings) == settings = NoRec

\* "if not settings or not settings['enabled']: return" of the handlers of
\* join events and of content events
Unmoderated(settings) == settings = NoRec \/ ~settings.enabled

\* ------------------------------------------------------- user_captcha
\* DELETE FROM user_captcha WHERE expires_at < CURRENT_TIMESTAMP
PurgeExpiredCaptcha(cap, t) ==
    [u \in Users |->
        IF cap[u] # NoRec /\ cap[u].expires_at < t THEN NoRec ELSE cap[u]]

CheckCaptchaPassed(cap, u, t, up) ==
    IF ~up THEN [ret |-> FALSE, cap |-> cap]
    ELSE LET c == PurgeExpiredCaptcha(cap, t)
         IN  [ret |-> c[u] # NoRec /\ c[u].captcha_passed, cap |-> c]

CheckCaptchaPassedRecently(cap, u, days, t, up) ==
    IF ~up THEN [ret |-> FALSE, cap |-> cap]
    ELSE LET c == PurgeExpiredCaptcha(cap, t)
         IN  [ret |-> /\ c[u] # NoRec
                      /\ c[u].created_at >= t - days * Day
                      /\ c[u].captcha_passed,
              cap |-> c]

\* ON CONFLICT DO NOTHING: the row of the first challenge is kept as it is
CreateCaptcha_KeepOnConflict(cap, u, t, up) ==
    IF ~up THEN [ret |-> FALSE, cap |-> cap]
    ELSE [ret |-> TRUE,
          cap |-> [cap EXCEPT ![u] =
                     IF @ = NoRec
                     THEN [captcha_passed |-> FALSE,
                           attempts |-> 0,
                           max_attempts |-> DefaultMaxAttempts,
                           created_at |-> t,
                           expires_at |-> t + CaptchaTimeoutMinutes * Minute]
                     ELSE @]]

\* INSERT ... ON CONFLICT (chat_id, user_id) DO UPDATE: created_at and
\* max_attempts keep the value of the first insert (the column defaults).
CreateCaptcha(cap, u, t, up) ==
    IF ~up THEN [ret |-> FALSE, cap |-> cap]
    ELSE [ret |-> TRUE,
          cap |-> [cap EXCEPT ![u] =
                     IF @ = NoRec
                     THEN [captcha_passed |-> FALSE,
                           attempts |-> 0,
                           max_attempts |-> DefaultMaxAttempts,
                           created_at |-> t,
                           expires_at |-> t + CaptchaTimeoutMinutes * Minute]
                     ELSE [@ EXCEPT !.captcha_passed = FALSE,
                                    !.attempts = 0,
                                    !.expires_at =
                                        t + CaptchaTimeoutMinutes * Minute]]]

MarkCaptchaPassed(cap, u, up) ==
    IF ~up \/ cap[u] = NoRec THEN [ret |-> FALSE, cap |-> cap]
    ELSE [ret |-> TRUE, cap |-> [cap EXCEPT ![u].captcha_passed = TRUE]]

\* the limit compared with > : the removal comes one wrong answer late
IncrementCaptchaAttempts_Late(cap, u, up) ==
    IF ~up \/ cap[u] = NoRec
    THEN [reached |-> FALSE, attempts |-> 0, cap |-> cap]
    ELSE [reached |-> cap[u].attempts + 1 > cap[u].max_attempts,
          attempts |-> cap[u].attempts + 1,
          cap |-> [cap EXCEPT ![u].attempts = @ + 1]]

\* returns (max_attempts_reached, attempts)
IncrementCaptchaAttempts(cap, u, up) ==
    IF ~up \/ cap[u] = NoRec
    THEN [reached |-> FALSE, attempts |-> 0, cap |-> cap]
    ELSE [reached |-> cap[u].attempts + 1 >= cap[u].max_attempts,
          attempts |-> cap[u].attempts + 1,
          cap |-> [cap EXCEPT ![u].attempts = @ + 1]]

DeleteCaptcha(cap, u, up) ==
    IF ~up THEN cap ELSE [cap EXCEPT ![u] = NoRec]

\* should_show_captcha: the answer, and what its reads did to the tables;
\* upLoad and upLookup tell whether the store is reachable when the
\* settings are loaded and when the passed row is looked up
ShouldShowCaptchaWith(row, cap, u, t, upLoad, upLookup) ==
    LET g == GetChatSettings(row, upLoad) IN
    IF g.ret = NoRec \/ ~g.ret.captcha_enabled
    THEN [ret |-> FALSE, cap |-> cap, row |-> g.row]
    ELSE IF g.ret.captcha_policy = ALWAYS
    THEN [ret |-> TRUE, cap |-> cap, row |-> g.row]
    ELSE IF g.ret.captcha_policy = TIME_BASED
    THEN LET c == CheckCaptchaPassedRecently(cap, u,
                      g.ret.captcha_valid_days, t, upLookup)
         IN  [ret |-> ~c.ret, cap |-> c.cap, row |-> g.row]
    ELSE LET c == CheckCaptchaPassed(cap, u, t, upLookup)
         IN  [ret |-> ~c.ret, cap |-> c.cap, row |-> g.row]

ShouldShowCaptcha(row, cap, u, t, up) ==
    ShouldShowCaptchaWith(row, cap, u, t, up, up)

\* ------------------------------------------------------ user_warnings
AddUserWarning(w, u, up) ==
    IF ~up THEN [ret |-> 1, w |-> w]
    ELSE [ret |-> w[u] + 1, w |-> [w EXCEPT ![u] = @ + 1]]

\* ------------------------------------------------------ flood_control
\* DELETE FROM flood_control WHERE last_message < NOW() - time_window
\* a purge that also takes the rows whose age is exactly the window
PurgeFlood_AtTheWindow(fl, t) ==
    [u \in Users |->
        IF fl[u] # NoRec
               /\ fl[u].last_message <= t - FloodWindowSeconds * Second
        THEN NoRec ELSE fl[u]]

PurgeFlood(fl, t) ==
    [u \in Users |->
        IF fl[u] # NoRec /\ fl[u].last_message < t - FloodWindowSeconds * Second
        THEN NoRec ELSE fl[u]]

\* a check that reports a flood when the store cannot be reached
CheckFloodControl_FailClosed(fl, u, t, up) ==
    IF ~up THEN [ret |-> TRUE, fl |-> fl]
    ELSE LET f == PurgeFlood(fl, t)
             message_count == IF f[u] # NoRec THEN f[u].message_count + 1 ELSE 1
         IN  [ret |-> message_count > FloodMaxMessages,
              fl |-> [f EXCEPT ![u] = [message_count |-> message_count,
                                       last_message |-> t]]]

\* returns False from its except branch
CheckFloodControl(fl, u, t, up) ==
    IF ~up THEN [ret |-> FALSE, fl |-> fl]
    ELSE LET f == PurgeFlood(fl, t)
             message_count == IF f[u] # NoRec THEN f[u].message_count + 1 ELSE 1
         IN  [ret |-> message_count > FloodMaxMessages,
              fl |-> [f EXCEPT ![u] = [message_count |-> message_count,
                                       last_message |-> t]]]

\* --------------------------------------------------- message_cooldown
\* DELETE FROM message_cooldown WHERE last_message < now - 1 day
PurgeCooldown(cd, t) ==
    [u \in Users |->
        IF cd[u] # NoRec /\ cd[u].last_message < t - CooldownPurgeDays * Day
        THEN NoRec ELSE cd[u]]

\* int(cooldown_seconds - seconds_passed): Python's int() drops the fraction
SecondsRemaining(cooldown_seconds, passed_ticks) ==
    (cooldown_seconds * Second - passed_ticks) \div TicksPerSecond

\* a check that stamps the row of a rejected post as well
CheckMessageCooldown_Restart(cd, u, t, cooldown_seconds, up) ==
    IF ~up THEN [can_send |-> TRUE, remaining |-> 0, cd |-> cd]
    ELSE LET c == PurgeCooldown(cd, t) IN
         [can_send |-> ~(/\ c[u] # NoRec
                          /\ t - c[u].last_message < cooldown_seconds * Second),
          remaining |-> 0,
          cd |-> [c EXCEPT ![u] = [last_message |-> t]]]

\* returns (can_send, seconds_remaining)
CheckMessageCooldown(cd, u, t, cooldown_seconds, up) ==
    IF ~up THEN [can_send |-> TRUE, remaining |-> 0, cd |-> cd]
    ELSE LET c == PurgeCooldown(cd, t) IN
         IF c[u] # NoRec /\ t - c[u].last_message < cooldown_seconds * Second
         THEN [can_send |-> FALSE,
               remaining |-> SecondsRemaining(cooldown_seconds,
                                              t - c[u].last_message),
               cd |-> c]
         ELSE [can_send |-> TRUE, remaining |-> 0,
               cd |-> [c EXCEPT ![u] = [last_message |-> t]]]

\* ------------------------------------------------- Bot API and logging
\* one call of the Bot API; it raises when its name is in fails
ApiCall(api, u, fails) == [api |-> api, user |-> u, ok |-> api \notin fails]

\* bot.send_message of the challenge or of the welcome text
SendMessage(text, u, fails) ==
    [api |-> text, user |-> u, ok |-> "send" \notin fails]

\* log_action: one row of statistics; nothing when the store fails
LogAction(lg, up, u, action_type, details) ==
    IF up
    THEN Append(lg, [user |-> u, action_type |-> action_type, details |-> details])
    ELSE lg

\* ban_chat_member then unban_chat_member, up to the first call that raises
Kick(u, fails) ==
    IF "ban" \in fails THEN <<ApiCall("ban", u, fails)>>
    ELSE <<ApiCall("ban", u, fails), ApiCall("unban", u, fails)>>

KickReturned(fails) == "ban" \notin fails /\ "unban" \notin fails

\* ---------------------------------------------- handle_captcha_callback
CallbackApis == {"answer", "restrict", "edit", "ban", "unban"}

\* the handler without the comparison of the two ids
NotForYou_Unchecked(actor, target) == FALSE

\* user_id != target_user_id: the button belongs to another member
NotForYou(actor, target) == actor # target

\* data = captcha_verify_<target>, pressed by actor
CaptchaVerify(actor, target, fails) ==
    LET m == MarkCaptchaPassed(user_captcha, actor, dbUp) IN
    /\ inChat[actor]
    /\ IF "answer" \in fails
       THEN /\ calls' = <<ApiCall("answer", actor, fails)>>
            /\ logged' = <<>>
            /\ UNCHANGED <<user_captcha, passedAt>>
       ELSE IF NotForYou(actor, target)
       THEN /\ calls' = <<ApiCall("answer", actor, fails),
                          ApiCall("alert_not_for_you", actor, fails)>>
            /\ logged' = <<>>
            /\ UNCHANGED <<user_captcha, passedAt>>
       ELSE IF m.ret
       THEN /\ user_captcha' = m.cap
            /\ calls' = <<ApiCall("answer", actor, fails),
                          ApiCall("restrict", actor, fails),
                          ApiCall("edit", actor, fails)>>
            /\ logged' = LogAction(<<>>, dbUp, actor, "captcha_passed", "")
            /\ passedAt' = IF actor \in DOMAIN passedAt
                           THEN [passedAt EXCEPT ![actor] = now]
                           ELSE passedAt
       ELSE /\ calls' = <<ApiCall("answer", actor, fails),
                          ApiCall("alert", actor, fails)>>
            /\ logged' = <<>>
            /\ UNCHANGED <<user_captcha, passedAt>>
    /\ UNCHANGED <<now, ticks, dbUp, chat_settings, flood_control,
                   message_cooldown, user_warnings, inChat, race>>

\* data = captcha_bot_<target>, pressed by actor
CaptchaBotWithin(bound, actor, target, fails) ==
    LET i == IncrementCaptchaAttempts(user_captcha, actor, dbUp) IN
    /\ inChat[actor]
    /\ (IF user_captcha[actor] = NoRec THEN 0
         ELSE user_captcha[actor].attempts) < bound
    /\ IF "answer" \in fails
       THEN /\ calls' = <<ApiCall("answer", actor, fails)>>
            /\ logged' = <<>>
            /\ UNCHANGED <<user_captcha, inChat>>
       ELSE IF NotForYou(actor, target)
       THEN /\ calls' = <<ApiCall("answer", actor, fails),
                          ApiCall("alert_not_for_you", actor, fails)>>
            /\ logged' = <<>>
            /\ UNCHANGED <<user_captcha, inChat>>
       ELSE IF i.reached
       THEN /\ user_captcha' = i.cap
            /\ calls' = <<ApiCall("answer", actor, fails)>> \o Kick(actor, fails)
                          \o (IF KickReturned(fails)
                              THEN <<ApiCall("edit", actor, fails)>> ELSE <<>>)
            /\ inChat' = IF "ban" \in fails THEN inChat
                         ELSE [inChat EXCEPT ![actor] = FALSE]
            /\ logged' = IF KickReturned(fails)
                         THEN LogAction(<<>>, dbUp, actor, "user_banned",
                                        "failed_captcha")
                         ELSE <<>>
       ELSE /\ user_captcha' = i.cap
            /\ calls' = <<ApiCall("answer", actor, fails),
                          ApiCall("alert", actor, fails)>>
            /\ logged' = <<>>
            /\ UNCHANGED inChat
    /\ UNCHANGED <<now, ticks, dbUp, chat_settings, flood_control,
                   message_cooldown, user_warnings, passedAt, race>>

\* the wrong answers the model follows: attempts up to MaxAttemptsSeen
CaptchaBot(actor, target, fails) ==
    CaptchaBotWithin(MaxAttemptsSeen, actor, target, fails)

HandleCaptchaCallback(Who, Fails) ==
    \E actor \in Who, target \in Users, fails \in Fails :
        \/ CaptchaVerify(actor, target, fails)
        \/ CaptchaBot(actor, target, fails)

\* ------------------------------------------------ check_captcha_expired
SweepApis == {"ban", "unban", "edit"}

\* a selection that leaves a row alone for one more minute
ExpiredCaptchas_Lenient(cap, t) ==
    {u \in Users : /\ cap[u] # NoRec
                   /\ cap[u].expires_at + Minute < t
                   /\ ~cap[u].captcha_passed}

\* SELECT ... WHERE expires_at < CURRENT_TIMESTAMP AND captcha_passed = FALSE
ExpiredCaptchas(cap, t) ==
    {u \in Users : /\ cap[u] # NoRec
                   /\ cap[u].expires_at < t
                   /\ ~cap[u].captcha_passed}

\* the body of the loop for one selected row: the calls it makes
SweepOneCalls(u, fails) ==
    Kick(u, fails)
    \o (IF KickReturned(fails) THEN <<ApiCall("edit", u, fails)>> ELSE <<>>)

SweepOneReturned(fails) == KickReturned(fails) /\ "edit" \notin fails

RECURSIVE SweepCalls(_, _, _)
SweepCalls(k, expired, failsOf) ==
    IF k > Len(UserOrder) THEN <<>>
    ELSE (IF UserOrder[k] \in expired
          THEN SweepOneCalls(UserOrder[k], failsOf[UserOrder[k]]) ELSE <<>>)
         \o SweepCalls(k + 1, expired, failsOf)

RECURSIVE SweepLogged(_, _, _)
SweepLogged(k, expired, failsOf) ==
    IF k > Len(UserOrder) THEN <<>>
    ELSE (IF UserOrder[k] \in expired /\ SweepOneReturned(failsOf[UserOrder[k]])
          THEN LogAction(<<>>, dbUp, UserOrder[k], "user_banned",
                         "captcha_timeout")
          ELSE <<>>)
         \o SweepLogged(k + 1, expired, failsOf)

\* a loop body whose except handler keeps the row
SweepOneRow_KeepOnError(cap, u, fails) ==
    IF SweepOneReturned(fails) THEN DeleteCaptcha(cap, u, dbUp) ELSE cap

\* both the try body and its except handler end in db.delete_captcha
SweepOneRow(cap, u, fails) == DeleteCaptcha(cap, u, dbUp)

RECURSIVE SweepTable(_, _, _, _)
SweepTable(k, expired, failsOf, cap) ==
    IF k > Len(UserOrder) THEN cap
    ELSE SweepTable(k + 1, expired, failsOf,
                    IF UserOrder[k] \in expired
                    THEN SweepOneRow(cap, UserOrder[k], failsOf[UserOrder[k]])
                    ELSE cap)

\* one run of the job; failsOf[u] is the call that raises for the row of u
CheckCaptchaExpiredWith(failsOf) ==
    LET expired == IF dbUp THEN ExpiredCaptchas(user_captcha, now) ELSE {} IN
    /\ \A u \in Users \ expired : failsOf[u] = {}
    /\ user_captcha' = SweepTable(1, expired, failsOf, user_captcha)
    /\ inChat' = [u \in Users |->
                     IF u \in expired /\ "ban" \notin failsOf[u]
                     THEN FALSE ELSE inChat[u]]
    /\ calls' = SweepCalls(1, expired, failsOf)
    /\ logged' = SweepLogged(1, expired, failsOf)
    /\ UNCHANGED <<now, ticks, dbUp, chat_settings, flood_control,
                   message_cooldown, user_warnings, passedAt, race>>

CheckCaptchaExpired(Fails) ==
    \E failsOf \in [Users -> Fails] : CheckCaptchaExpiredWith(failsOf)

\* ----------------------------------------------------- new_chat_members
JoinApis == {"ban", "unban", "send", "restrict", "delete"}

\* the tables and the platform as a handler sees them while it runs
World(row, cap, inC) ==
    [row |-> row, cap |-> cap, inChat |-> inC, calls |-> <<>>, logged |-> <<>>]

\* send_captcha: the message first, then the row, then the restriction
SendCaptcha(w, u, fails) ==
    LET g == GetChatSettings(w.row, dbUp)
        c == CreateCaptcha(w.cap, u, now, dbUp)
    IN  IF g.ret = NoRec THEN w
        ELSE IF "send" \in fails
        THEN [w EXCEPT !.row = g.row,
                       !.calls = Append(@, SendMessage("send_captcha", u, fails))]
        ELSE IF ~c.ret
        THEN [w EXCEPT !.row = g.row,
                       !.calls = Append(@, SendMessage("send_captcha", u, fails))]
        ELSE [w EXCEPT !.row = g.row,
                       !.cap = c.cap,
                       !.calls = @ \o <<SendMessage("send_captcha", u, fails),
                                        ApiCall("restrict", u, fails)>>]

\* send_welcome_message
SendWelcomeMessage(w, st, u, fails) ==
    IF ~st.welcome_message THEN w
    ELSE IF "send" \in fails
    THEN [w EXCEPT !.calls = Append(@, SendMessage("send_welcome", u, fails))]
    ELSE [w EXCEPT !.calls = Append(@, SendMessage("send_welcome", u, fails)),
                   !.logged = LogAction(@, dbUp, u, "welcome_sent", "")]

\* the captcha step of the loop body
GateCaptcha(w, st, u, fails) ==
    LET sh == ShouldShowCaptcha(w.row, w.cap, u, now, dbUp)
        w1 == [w EXCEPT !.row = sh.row, !.cap = sh.cap]
    IN  IF st.captcha_enabled
        THEN IF sh.ret THEN SendCaptcha(w1, u, fails)
             ELSE SendWelcomeMessage(w1, st, u, fails)
        ELSE SendWelcomeMessage(w, st, u, fails)

\* the age check without the test for a missing date
GateMember_NoDateIsYoung(w, st, u, age, fails) ==
    LET w1 == [w EXCEPT !.logged = LogAction(@, dbUp, u, "new_member", "")]
        young == /\ st.min_account_age_days > 0
                 /\ age < st.min_account_age_days
        w2 == [w1 EXCEPT !.calls = @ \o Kick(u, fails),
                         !.inChat[u] = IF "ban" \in fails THEN @ ELSE FALSE]
    IN  IF ~young THEN GateCaptcha(w1, st, u, fails)
        ELSE IF KickReturned(fails)
        THEN [w2 EXCEPT !.logged = LogAction(@, dbUp, u, "user_blocked",
                                             "young_account")]
        ELSE GateCaptcha(w2, st, u, fails)

\* the loop body for one member whose account age is age
GateMember(w, st, u, age, fails) ==
    LET w1 == [w EXCEPT !.logged = LogAction(@, dbUp, u, "new_member", "")]
        young == /\ st.min_account_age_days > 0
                 /\ age # NoDate
                 /\ age < st.min_account_age_days
        w2 == [w1 EXCEPT !.calls = @ \o Kick(u, fails),
                         !.inChat[u] = IF "ban" \in fails THEN @ ELSE FALSE]
    IN  IF ~young THEN GateCaptcha(w1, st, u, fails)
        ELSE IF KickReturned(fails)
        THEN [w2 EXCEPT !.logged = LogAction(@, dbUp, u, "user_blocked",
                                             "young_account")]
        ELSE GateCaptcha(w2, st, u, fails)

\* message.delete() of the service message, after the loop
DeleteServiceMessage(w, st, fails) ==
    IF ~st.delete_service_messages THEN w
    ELSE IF "delete" \in fails
    THEN [w EXCEPT !.calls = Append(@, ApiCall("delete", 0, fails))]
    ELSE [w EXCEPT !.calls = Append(@, ApiCall("delete", 0, fails)),
                   !.logged = LogAction(@, dbUp, 0,
                                        "service_message_deleted", "")]

\* the loop over message.new_chat_members: batch[k] is the k-th member of
\* the event, with the account age and the calls that raise while the
\* member is handled
RECURSIVE GateBatch_AbortOnError(_, _, _, _)
GateBatch_AbortOnError(w, st, batch, k) ==
    IF k > Len(batch) THEN w
    ELSE LET m == batch[k]
             w1 == GateMember(w, st, m.user, m.age, m.fails)
         IN  IF m.fails # {} THEN w1
             ELSE GateBatch_AbortOnError(w1, st, batch, k + 1)

RECURSIVE GateBatch(_, _, _, _)
GateBatch(w, st, batch, k) ==
    IF k > Len(batch) THEN w
    ELSE LET m == batch[k]
         IN  GateBatch(GateMember(w, st, m.user, m.age, m.fails),
                       st, batch, k + 1)

\* one join event: batch holds its members, fails the calls that raise
\* when the service message is deleted
NewChatMembersOf(batch, fails) ==
    LET joined == {batch[k].user : k \in DOMAIN batch}
        g == GetChatSettings(chat_settings, dbUp)
        w0 == World(g.row, user_captcha,
                    [u \in Users |-> inChat[u] \/ u \in joined])
        w == IF Unmoderated(g.ret)
             THEN w0
             ELSE DeleteServiceMessage(GateBatch(w0, g.ret, batch, 1),
                                       g.ret, fails)
    IN  /\ \A u \in joined : ~inChat[u]
        /\ chat_settings' = w.row
        /\ user_captcha' = w.cap
        /\ inChat' = w.inChat
        /\ calls' = w.calls
        /\ logged' = w.logged
        /\ UNCHANGED <<now, ticks, dbUp, flood_control, message_cooldown,
                       user_warnings, passedAt, race>>

\* a join event with one member
NewChatMembers(Who, Ages, Fails) ==
    \E u \in Who, age \in Ages, fails \in Fails :
        NewChatMembersOf(<<[user |-> u, age |-> age, fails |-> fails]>>,
                         fails)

\* the join events of one or of both users: the members of one event, in
\* the order of UserOrder
Batches(Ages, Fails) ==
    LET M(u) == {[user |-> u, age |-> a, fails |-> f] :
                    a \in Ages, f \in Fails}
    IN  {<<m>> : m \in UNION {M(u) : u \in Users}}
        \cup {<<m1, m2>> : m1 \in M(UserOrder[1]), m2 \in M(UserOrder[2])}

\* a join event with one or with several members
NewChatMembersBatch(Ages, Fails) ==
    \E batch \in Batches(Ages, Fails), fails \in FailSets({"delete"}) :
        NewChatMembersOf(batch, fails)

\* a member leaves the conversation; the bot handles no such event
LeaveChat(Who) ==
    \E u \in Who :
        /\ inChat[u]
        /\ inChat' = [inChat EXCEPT ![u] = FALSE]
        /\ calls' = <<>>
        /\ logged' = <<>>
        /\ UNCHANGED <<now, ticks, dbUp, chat_settings, user_captcha,
                       flood_control, message_cooldown, user_warnings,
                       passedAt, race>>

\* ------------------------------------------------------ handle_comments
\* The notices the handler removes again after asyncio.sleep are not part
\* of the model: removing them changes no table and no membership.
CommentApis == {"delete", "reply", "ban", "unban"}

\* the spam-keyword check, the last one of the handler
StageSpam(r, u, is_comment, age, spam, fails) ==
    IF is_comment /\ spam /\ age # NoDate /\ age < SpamLinkMinAgeDays
    THEN IF "delete" \in fails
         THEN [r EXCEPT !.calls = Append(@, ApiCall("delete", u, fails))]
         ELSE [r EXCEPT !.calls = @ \o <<ApiCall("delete", u, fails),
                                          ApiCall("reply", u, fails)>>,
                        !.logged = LogAction(@, dbUp, u, "comment_deleted",
                                             "spam_link_detected")]
    ELSE r

\* the limit check of the flood branch: warnings_count >= max_warnings
FloodBan(r, st, u, is_comment, fails, warnings_count) ==
    IF warnings_count >= st.max_warnings
    THEN [r EXCEPT !.calls = @ \o Kick(u, fails),
                   !.inChat[u] = IF "ban" \in fails THEN @ ELSE FALSE,
                   !.logged = IF KickReturned(fails)
                              THEN LogAction(@, dbUp, u, "user_banned",
                                       IF is_comment
                                       THEN "max_warnings_comments"
                                       ELSE "max_warnings_messages")
                              ELSE @]
    ELSE r

\* the flood check; an exception in its try block falls through to the
\* spam-keyword check.  The storage calls of check_flood_control and of
\* add_user_warning raise when they are named among the calls that fail.
StageFlood(r, st, u, is_comment, age, spam, fails) ==
    LET f == CheckFloodControl(r.fl, u, now,
                               dbUp /\ "check_flood_control" \notin fails)
        a == AddUserWarning(r.warn, u,
                            dbUp /\ "add_user_warning" \notin fails)
        r1 == [r EXCEPT !.fl = f.fl]
        r2 == [r1 EXCEPT !.calls = Append(@, ApiCall("delete", u, fails))]
        r3 == [r2 EXCEPT !.logged = LogAction(@, dbUp, u,
                                        IF is_comment THEN "comment_deleted"
                                        ELSE "message_deleted",
                                        "flood_detected"),
                         !.warn = a.w,
                         !.calls = Append(@, ApiCall("reply", u, fails))]
    IN  IF ~st.anti_flood_enabled
        THEN StageSpam(r, u, is_comment, age, spam, fails)
        ELSE IF ~f.ret
        THEN StageSpam(r1, u, is_comment, age, spam, fails)
        ELSE IF "delete" \in fails
        THEN StageSpam(r2, u, is_comment, age, spam, fails)
        ELSE IF "reply" \in fails
        THEN StageSpam(r3, u, is_comment, age, spam, fails)
        ELSE FloodBan(r3, st, u, is_comment, fails, a.ret)

\* protect_comments, the posted row, and the account age of a commenter
StageComment(r, st, u, is_comment, age, spam, fails) ==
    LET r1 == [r EXCEPT !.logged = LogAction(@, dbUp, u,
                   IF is_comment THEN "comment_posted" ELSE "message_posted",
                   "")]
        young == /\ is_comment
                 /\ st.min_account_age_days > 0
                 /\ age # NoDate
                 /\ age < st.min_account_age_days
        r2 == [r1 EXCEPT !.calls = Append(@, ApiCall("delete", u, fails))]
        r3 == [r2 EXCEPT !.logged = LogAction(@, dbUp, u, "comment_deleted",
                                              "young_account"),
                         !.calls = Append(@, ApiCall("reply", u, fails))]
    IN  IF is_comment /\ ~st.protect_comments
        THEN r
        ELSE IF ~young
        THEN StageFlood(r1, st, u, is_comment, age, spam, fails)
        ELSE IF "delete" \in fails
        THEN StageFlood(r2, st, u, is_comment, age, spam, fails)
        ELSE IF "reply" \in fails
        THEN StageFlood(r3, st, u, is_comment, age, spam, fails)
        ELSE r3

\* message.delete() and the notice of a stage that rejects the message
Reject(r, u, fails) ==
    [r EXCEPT !.calls = IF "delete" \in fails
                        THEN <<ApiCall("delete", u, fails)>>
                        ELSE <<ApiCall("delete", u, fails),
                               ApiCall("reply", u, fails)>>]

\* the message cooldown, checked with 30 seconds; its storage call raises
\* when it is named among the calls that fail
StageCooldown(r, st, u, is_comment, age, spam, fails) ==
    LET c == CheckMessageCooldown(r.cd, u, now, CooldownSeconds,
                                  dbUp /\ "check_message_cooldown" \notin fails)
        r1 == [r EXCEPT !.cd = c.cd]
    IN  IF ~st.message_cooldown_enabled
        THEN StageComment(r, st, u, is_comment, age, spam, fails)
        ELSE IF c.can_send
        THEN StageComment(r1, st, u, is_comment, age, spam, fails)
        ELSE Reject(r1, u, fails)

\* the captcha check: a member without a passed row is not heard
StageCaptcha(r, st, u, is_comment, age, spam, fails) ==
    LET c == CheckCaptchaPassed(r.cap, u, now, dbUp)
        r1 == [r EXCEPT !.cap = c.cap]
    IN  IF ~st.captcha_enabled
        THEN StageCooldown(r, st, u, is_comment, age, spam, fails)
        ELSE IF c.ret
        THEN StageCooldown(r1, st, u, is_comment, age, spam, fails)
        ELSE Reject(r1, u, fails)

\* the tables and the membership a handler of a content event starts from
Tables ==
    [row |-> chat_settings, cap |-> user_captcha, cd |-> message_cooldown,
     fl |-> flood_control, warn |-> user_warnings, inChat |-> inChat,
     calls |-> <<>>, logged |-> <<>>]

\* handle_comments as a function of what it starts from: what it leaves
CommentsResult(t, u, is_comment, age, spam, fails) ==
    LET g == GetChatSettings(t.row, dbUp)
        r0 == [t EXCEPT !.row = g.row]
    IN  IF Unmoderated(g.ret)
        THEN r0
        ELSE StageCaptcha(r0, g.ret, u, is_comment, age, spam, fails)

HandleCommentsBy(u, is_comment, age, spam, fails) ==
    LET r == CommentsResult(Tables, u, is_comment, age, spam, fails)
    IN  /\ inChat[u]
        /\ (IF flood_control[u] = NoRec THEN 0
             ELSE flood_control[u].message_count) < MaxCount
        /\ user_warnings[u] < MaxWarnSeen
        /\ chat_settings' = r.row
        /\ user_captcha' = r.cap
        /\ message_cooldown' = r.cd
        /\ flood_control' = r.fl
        /\ user_warnings' = r.warn
        /\ inChat' = r.inChat
        /\ calls' = r.calls
        /\ logged' = r.logged
        /\ UNCHANGED <<now, ticks, dbUp, passedAt, race>>

HandleComments(Who, Kinds, Fails) ==
    \E u \in Who, m \in Kinds, fails \in Fails :
        HandleCommentsBy(u, m.is_comment, m.age, m.spam, fails)

\* ------------------------------------- storage calls that run side by side
\* Each storage call opens its own connection, so the calls of two workers
\* are two transactions and the store interleaves their statements.  The
\* calls of add_user_warning and of increment_captcha_attempts are one
\* statement each; check_flood_control fetches the count with one
\* statement and writes the count it has computed with another.

\* check_flood_control up to fetchone(): the DELETE of the rows the window
\* has left behind and the SELECT of message_count
FloodSelect(fl, u, t) ==
    LET p == PurgeFlood(fl, t) IN [fl |-> p, result |-> p[u]]

\* a check_flood_control that adds 1 to the stored count inside the UPDATE
FloodWrite_Atomic(fl, u, t, result) ==
    IF fl[u] # NoRec
    THEN [fl EXCEPT ![u] = [message_count |-> fl[u].message_count + 1,
                            last_message |-> t]]
    ELSE [fl EXCEPT ![u] = [message_count |-> 1, last_message |-> t]]

\* check_flood_control after fetchone(): UPDATE with result[0] + 1 when a
\* row was fetched (the UPDATE changes nothing when the row has gone),
\* INSERT of a row that counts 1 when none was; then commit
FloodWrite(fl, u, t, result) ==
    IF result # NoRec
    THEN IF fl[u] # NoRec
         THEN [fl EXCEPT ![u] = [message_count |-> result.message_count + 1,
                                 last_message |-> t]]
         ELSE fl
    ELSE [fl EXCEPT ![u] = [message_count |-> 1, last_message |-> t]]

\* worker w enters check_flood_control for u and fetches the count
BeginFloodCheck(w, u) ==
    LET s == FloodSelect(flood_control, u, now) IN
    /\ dbUp
    /\ inflight[w] = Idle
    /\ handled[u].flood + Cardinality({v \in Workers : inflight[v] # Idle})
           < MaxRaceCalls
    /\ flood_control' = s.fl
    /\ inflight' = [inflight EXCEPT ![w] = [user |-> u, result |-> s.result]]
    /\ calls' = <<>>
    /\ logged' = <<>>
    /\ UNCHANGED <<now, ticks, dbUp, chat_settings, user_captcha,
                   message_cooldown, user_warnings, inChat, passedAt,
                   expired_captchas,
                   handled>>

\* worker w writes the count, commits and returns
EndFloodCheck(w) ==
    /\ dbUp
    /\ inflight[w] # Idle
    /\ LET u == inflight[w].user IN
        /\ flood_control' = FloodWrite(flood_control, u, now,
                                       inflight[w].result)
        /\ handled' = [handled EXCEPT ![u].flood = @ + 1]
    /\ inflight' = [inflight EXCEPT ![w] = Idle]
    /\ calls' = <<>>
    /\ logged' = <<>>
    /\ UNCHANGED <<now, ticks, dbUp, chat_settings, user_captcha,
                   message_cooldown, user_warnings, inChat, passedAt,
                   expired_captchas>>

\* a worker calls increment_captcha_attempts for u, who has a row
WrongAnswerCall(u) ==
    LET i == IncrementCaptchaAttempts(user_captcha, u, dbUp) IN
    /\ dbUp
    /\ user_captcha[u] # NoRec
    /\ handled[u].wrong < MaxRaceCalls
    /\ user_captcha' = i.cap
    /\ handled' = [handled EXCEPT ![u].wrong = @ + 1]
    /\ calls' = <<>>
    /\ logged' = <<>>
    /\ UNCHANGED <<now, ticks, dbUp, chat_settings, flood_control,
                   message_cooldown, user_warnings, inChat, passedAt,
                   expired_captchas,
                   inflight>>

\* a worker calls add_user_warning for u
WarningCall(u) ==
    LET a == AddUserWarning(user_warnings, u, dbUp) IN
    /\ dbUp
    /\ handled[u].warned < MaxRaceCalls
    /\ user_warnings' = a.w
    /\ handled' = [handled EXCEPT ![u].warned = @ + 1]
    /\ calls' = <<>>
    /\ logged' = <<>>
    /\ UNCHANGED <<now, ticks, dbUp, chat_settings, user_captcha,
                   flood_control, message_cooldown, inChat, passedAt,
                   expired_captchas,
                   inflight>>

\* ------------------------------------------------ enable_bot, disable_bot
\* the commands /enable and /disable: the settings are loaded, the switch
\* is set and the settings are saved
SetEnabled(flag) ==
    LET g == GetChatSettings(chat_settings, dbUp)
    IN  /\ g.ret # NoRec
        /\ g.ret.enabled # flag
        /\ chat_settings' = SaveChatSettings([g.ret EXCEPT !.enabled = flag])
        /\ calls' = <<ApiCall("reply_command", 0, {})>>
        /\ logged' = <<>>
        /\ UNCHANGED <<now, ticks, dbUp, user_captcha, flood_control,
                       message_cooldown, user_warnings, inChat, passedAt, race>>

\* ------------------------------------------------------- environment
\* the clock advances by one of the steps
Tick(Steps) ==
    \E d \in Steps :
        /\ ticks < MaxTicks
        /\ now' = now + d
        /\ ticks' = ticks + 1
        /\ calls' = <<>>
        /\ logged' = <<>>
        /\ UNCHANGED <<dbUp, chat_settings, user_captcha, flood_control,
                       message_cooldown, user_warnings, inChat, passedAt, race>>

\* the store becomes unreachable, or reachable again
StorageFlip ==
    /\ dbUp' = ~dbUp
    /\ calls' = <<>>
    /\ logged' = <<>>
    /\ UNCHANGED <<now, ticks, chat_settings, user_captcha, flood_control,
                   message_cooldown, user_warnings, inChat, passedAt, race>>

\* after DatabaseManager(): the settings row of the conversation, empty
\* tables, nobody has joined yet; the answers of Followed are recorded
InitWith(settings, Followed) ==
    /\ now = 0
    /\ ticks = 0
    /\ dbUp = TRUE
    /\ chat_settings = settings
    /\ user_captcha = [u \in Users |-> NoRec]
    /\ flood_control = [u \in Users |-> NoRec]
    /\ message_cooldown = [u \in Users |-> NoRec]
    /\ user_warnings = [u \in Users |-> 0]
    /\ inChat = [u \in Users |-> FALSE]
    /\ calls = <<>>
    /\ logged = <<>>
    /\ passedAt = [u \in Followed |-> -1]
    /\ inflight = [w \in Workers |-> Idle]
    /\ handled = [u \in Users |-> NoneHandled]
    /\ expired_captchas = <<>>

\* --- the challenge: joins, answers, content and the sweeper, over
\* minutes; calls of the answer handler and of the sweeper may raise
CaptchaSettings ==
    {[DefaultSettings EXCEPT !.anti_flood_enabled = FALSE]}

CaptchaSteps ==
    {CaptchaTimeoutMinutes * Minute + Second}

Init == \E s \in CaptchaSettings : InitWith(s, {})

Next ==
    \/ NewChatMembers(Users, AccountAges, NoFailure)
    \/ HandleCaptchaCallback(Users, FailSets(CallbackApis))
    \/ HandleComments(Users, PlainContent, NoFailure)
    \/ CheckCaptchaExpired(FailSets(SweepApis))
    \/ Tick(CaptchaSteps)

Spec == Init /\ [][Next]_vars

\* ------------------------------------------- properties of the challenge
\* the row of u is a challenge that has not been answered correctly
Pending(u) == user_captcha[u] # NoRec /\ ~user_captcha[u].captcha_passed

\* the row of u is a pending challenge whose time is over
PendingExpired(u) == Pending(u) /\ user_captcha[u].expires_at < now

\* cs holds ban_chat_member for u, followed by unban_chat_member when the
\* ban returned
BanThenUnban(cs, u) ==
    \E i \in DOMAIN cs :
        /\ cs[i].api = "ban" /\ cs[i].user = u
        /\ cs[i].ok => /\ i + 1 \in DOMAIN cs
                       /\ cs[i + 1].api = "unban" /\ cs[i + 1].user = u

\* cs holds a call of api for u
Called(cs, api, u) ==
    \E i \in DOMAIN cs : cs[i].api = api /\ cs[i].user = u

\* cs holds a call of api for u that returned
Returned(cs, api, u) ==
    \E i \in DOMAIN cs : cs[i].api = api /\ cs[i].user = u /\ cs[i].ok

\* how many rows of lg are (u, action_type, details)
Entries(lg, u, action_type, details) ==
    Cardinality({i \in DOMAIN lg :
                    lg[i] = [user |-> u, action_type |-> action_type,
                             details |-> details]})

\* a wrong answer of the owner u of the challenge that the handler takes up
WrongAnswer(u) ==
    \E fails \in FailSets(CallbackApis) \ {{"answer"}} : CaptchaBot(u, u, fails)

\* C3: with max_attempts = 3, the first and the second wrong answer of the
\* owner of a pending challenge leave the member in the chat and the row
\* pending, with one more attempt counted and no ban requested; the third
\* wrong answer requests the ban, followed by the unban when the ban
\* returned.
C3_ThirdWrongAnswerRemoves ==
    [][\A u \in Users :
          (/\ WrongAnswer(u)
           /\ dbUp
           /\ Pending(u)
           /\ user_captcha[u].max_attempts = 3)
          => /\ user_captcha[u].attempts \in {0, 1}
                  => /\ inChat'[u]
                     /\ Pending(u)'
                     /\ user_captcha'[u].attempts
                            = user_captcha[u].attempts + 1
                     /\ ~Called(calls', "ban", u)
             /\ user_captcha[u].attempts = 2
                  => /\ BanThenUnban(calls', u)
                     /\ Returned(calls', "ban", u) => ~inChat'[u]]_vars

\* the third wrong answer has removed a member
C3_Witness ==
    \E u \in Users :
        /\ Pending(u)
        /\ user_captcha[u].attempts = 3
        /\ Returned(calls, "answer", u)
        /\ Returned(calls, "ban", u)
        /\ Returned(calls, "unban", u)
        /\ ~inChat[u]

\* C18: an answer, correct or wrong, pressed by a member other than the
\* owner of the challenge changes no row of user_captcha, nobody's
\* membership or restriction, and writes no row of statistics.
C18_ForeignAnswerChangesNothing ==
    [][\A actor \in Users, target \in Users, fails \in FailSets(CallbackApis) :
          (/\ actor # target
           /\ \/ CaptchaVerify(actor, target, fails)
              \/ CaptchaBot(actor, target, fails))
          => /\ user_captcha' = user_captcha
             /\ inChat' = inChat
             /\ logged' = <<>>
             /\ \A i \in DOMAIN calls' :
                    calls'[i].api \notin {"restrict", "ban", "unban", "edit"}]_vars

\* a member has pressed a button of the pending challenge of another
\* member, who has already given a wrong answer
C18_Witness ==
    \E actor \in Users, owner \in Users :
        /\ actor # owner
        /\ calls = <<[api |-> "answer", user |-> actor, ok |-> TRUE],
                     [api |-> "alert_not_for_you", user |-> actor,
                      ok |-> TRUE]>>
        /\ logged = <<>>
        /\ Pending(actor)
        /\ Pending(owner)
        /\ user_captcha[owner].attempts > 0
        /\ inChat[owner]

\* C4: after the wrong answer that reaches max_attempts and removes the
\* member, no row of user_captcha is left for the member.
C4_RemovedLeavesNoRecord ==
    \A u \in Users :
        Entries(logged, u, "user_banned", "failed_captcha") > 0
            => user_captcha[u] = NoRec

\* C5: a run of the job that finds the pending challenge of u expired and
\* whose calls for u all return deletes the row, bans and unbans u, and
\* writes one captcha_timeout row for u; a run that does not find a
\* challenge of u expired writes none.
C5_SweepRemovesAndLogsOnce ==
    [][\A failsOf \in [Users -> FailSets(SweepApis)] :
          (CheckCaptchaExpiredWith(failsOf) /\ dbUp)
          => \A u \in Users :
                /\ (PendingExpired(u) /\ failsOf[u] = {})
                     => /\ user_captcha'[u] = NoRec
                        /\ ~inChat'[u]
                        /\ BanThenUnban(calls', u)
                        /\ Returned(calls', "unban", u)
                        /\ Entries(logged', u, "user_banned",
                                   "captcha_timeout") = 1
                /\ ~PendingExpired(u)
                     => Entries(logged', u, "user_banned",
                                "captcha_timeout") = 0]_vars

\* the job has removed a member whose challenge had expired
C5_Witness ==
    \E u \in Users :
        /\ logged = <<[user |-> u, action_type |-> "user_banned",
                       details |-> "captcha_timeout"]>>
        /\ Returned(calls, "ban", u)
        /\ Returned(calls, "unban", u)
        /\ Returned(calls, "edit", u)
        /\ user_captcha[u] = NoRec
        /\ ~inChat[u]

\* C6: a run of the job in which a call for the expired pending challenge
\* of u raises still deletes the row of u; and the job makes calls only
\* for members whose row it found expired, so a later run does not try
\* the removal again.
C6_SweepDeletesOnFailure ==
    [][\A failsOf \in [Users -> FailSets(SweepApis)] :
          (CheckCaptchaExpiredWith(failsOf) /\ dbUp)
          => \A u \in Users :
                /\ (PendingExpired(u) /\ failsOf[u] # {})
                     => user_captcha'[u] = NoRec
                /\ ~PendingExpired(u)
                     => \A i \in DOMAIN calls' : calls'[i].user # u]_vars

\* the ban of a member whose challenge had expired has failed, and the row
\* is gone
C6_Witness ==
    \E u \in Users :
        /\ calls = <<[api |-> "ban", user |-> u, ok |-> FALSE]>>
        /\ logged = <<>>
        /\ user_captcha[u] = NoRec
        /\ inChat[u]

\* --- the policies that remember a pass: the same handlers, over days,
\* with the time of every correct answer recorded
PolicySettings ==
    {[DefaultSettings EXCEPT !.captcha_policy = p,
                             !.anti_flood_enabled = FALSE] :
        p \in {PERSISTENT, TIME_BASED}}

PolicySteps == {Day, (DefaultValidDays + 1) * Day}

InitPolicy == \E s \in PolicySettings : InitWith(s, Users)

NextPolicy ==
    \/ NewChatMembers(Users, AccountAges, NoFailure)
    \/ HandleCaptchaCallback(Users, NoFailure)
    \/ HandleComments(Users, PlainContent, NoFailure)
    \/ CheckCaptchaExpired(NoFailure)
    \/ Tick(PolicySteps)

SpecPolicy == InitPolicy /\ [][NextPolicy]_vars

\* the persistent policy with the challenge enabled, the store reachable
PersistentOn ==
    /\ dbUp
    /\ chat_settings # NoRec
    /\ chat_settings.captcha_enabled
    /\ chat_settings.captcha_policy = PERSISTENT

\* C1: under the persistent policy with the challenge enabled, once a
\* member has answered a challenge correctly, should_show_captcha answers
\* false for that member in every later state, whatever time has passed.
C1_PersistentPassIsForever ==
    \A u \in DOMAIN passedAt :
        (PersistentOn /\ passedAt[u] >= 0)
            => ~ShouldShowCaptcha(chat_settings, user_captcha, u, now, dbUp).ret

\* the time-based policy with the challenge enabled, the store reachable
TimeBasedOn ==
    /\ dbUp
    /\ chat_settings # NoRec
    /\ chat_settings.captcha_enabled
    /\ chat_settings.captcha_policy = TIME_BASED

\* C2: under the time-based policy with captcha_valid_days = 30, after a
\* member has passed a challenge should_show_captcha answers false for the
\* member at every time within 30 days of the pass, and true from day 31.
C2_TimeBasedValidFor30Days ==
    \A u \in DOMAIN passedAt :
        (TimeBasedOn /\ chat_settings.captcha_valid_days = 30
                     /\ passedAt[u] >= 0)
        => LET show == ShouldShowCaptcha(chat_settings, user_captcha, u, now,
                                         dbUp).ret
           IN  /\ now - passedAt[u] <= 30 * Day => ~show
               /\ now - passedAt[u] >= 31 * Day => show

\* --- the flood control: one member posting, over seconds
FloodSettings ==
    {[DefaultSettings EXCEPT !.captcha_enabled = FALSE, !.max_warnings = m] :
        m \in {2, DefaultMaxWarnings}}

FloodSteps == {Second, (FloodWindowSeconds + 1) * Second}

FloodPosters == {UserOrder[1]}

OldAccount == {10}

InitFlood == \E s \in FloodSettings : InitWith(s, {})

NextFlood ==
    \/ NewChatMembers(FloodPosters, OldAccount, NoFailure)
    \/ HandleComments(FloodPosters, PlainContent, FailSets(CommentApis))
    \/ CheckCaptchaExpired(NoFailure)
    \/ Tick(FloodSteps)

SpecFlood == InitFlood /\ [][NextFlood]_vars

\* the handler reaches the flood check: the conversation is moderated,
\* the store reachable, the earlier checks switched off
FloodOn ==
    /\ dbUp
    /\ chat_settings # NoRec
    /\ chat_settings.enabled
    /\ chat_settings.anti_flood_enabled
    /\ ~chat_settings.captcha_enabled
    /\ ~chat_settings.message_cooldown_enabled

\* a plain message of u, handled
PlainMessage(u) ==
    \E fails \in FailSets(CommentApis) :
        HandleCommentsBy(u, FALSE, NoDate, FALSE, fails)

\* the messages of u the flood window holds
InWindow(u) ==
    IF /\ flood_control[u] # NoRec
       /\ now - flood_control[u].last_message <= FloodWindowSeconds * Second
    THEN flood_control[u].message_count
    ELSE 0

\* C7: with 5 messages in 10 seconds allowed, check_flood_control does not
\* flag the first to the fifth message of a member in the window, flags
\* the sixth, and handling the sixth adds exactly 1 to the warnings of the
\* member.
C7_SixthMessageWarnsOnce ==
    [][\A u \in Users :
          (PlainMessage(u) /\ FloodOn)
          => LET is_flood == CheckFloodControl(flood_control, u, now,
                                               dbUp).ret
             IN  /\ InWindow(u) + 1 <= 5 => ~is_flood
                 /\ InWindow(u) + 1 = 6
                      => /\ is_flood
                         /\ user_warnings'[u] = user_warnings[u] + 1]_vars

\* C10: with max_warnings = M, a member is removed for warnings on the
\* flood violation for which add_user_warning returns M, and on no
\* violation for which it returns less.
C10_RemovedOnMthWarning ==
    [][\A u \in Users :
          (/\ PlainMessage(u)
           /\ FloodOn
           /\ user_warnings'[u] = user_warnings[u] + 1)
          => /\ user_warnings'[u] < chat_settings.max_warnings
                  => ~Called(calls', "ban", u)
             /\ user_warnings'[u] = chat_settings.max_warnings
                  => BanThenUnban(calls', u)]_vars

\* C11: once a member has been removed for reaching max_warnings the
\* warnings of the member are reset, so that the next flood violation of
\* the member counts from 1 again.
C11_LedgerResetAfterRemoval ==
    \A u \in Users :
        Entries(logged, u, "user_banned", "max_warnings_messages") > 0
            => user_warnings[u] = 0

\* --- the message cooldown: posts half a second to a day apart
CooldownSettings ==
    {[DefaultSettings EXCEPT !.captcha_enabled = FALSE,
                             !.anti_flood_enabled = FALSE,
                             !.message_cooldown_enabled = TRUE]}

CooldownSteps ==
    {1, Second, CooldownSeconds * Second - 1, CooldownSeconds * Second,
     CooldownPurgeDays * Day + Second}

InitCooldown == \E s \in CooldownSettings : InitWith(s, {})

NextCooldown ==
    \/ NewChatMembers(Users, OldAccount, NoFailure)
    \/ HandleComments(Users, PlainContent, FailSets(CommentApis))
    \/ CheckCaptchaExpired(NoFailure)
    \/ Tick(CooldownSteps)

SpecCooldown == InitCooldown /\ [][NextCooldown]_vars

\* the handler reaches the cooldown check
CooldownOn ==
    /\ dbUp
    /\ chat_settings # NoRec
    /\ chat_settings.enabled
    /\ chat_settings.message_cooldown_enabled
    /\ ~chat_settings.captcha_enabled

\* no row of u, or the cooldown since the last accepted post of u is over
CooldownOver(u) ==
    \/ message_cooldown[u] = NoRec
    \/ now - message_cooldown[u].last_message >= CooldownSeconds * Second

\* C8: a post is accepted if and only if the member has no row in
\* message_cooldown or the last accepted post is at least cooldown_seconds
\* old; an accepted post sets last_message to now, a rejected post leaves
\* the row as it was.
C8_CooldownAcceptsAndStamps ==
    [][\A u \in Users :
          (PlainMessage(u) /\ CooldownOn)
          => /\ CooldownOver(u)
                  => /\ Entries(logged', u, "message_posted", "") = 1
                     /\ message_cooldown'[u] = [last_message |-> now]
             /\ ~CooldownOver(u)
                  => /\ Entries(logged', u, "message_posted", "") = 0
                     /\ Called(calls', "delete", u)
                     /\ message_cooldown'[u] = message_cooldown[u]]_vars

\* a post has been rejected some time after the accepted one
C8_Witness ==
    \E u \in Users :
        /\ CooldownOn
        /\ ~CooldownOver(u)
        /\ now > message_cooldown[u].last_message
        /\ calls = <<[api |-> "delete", user |-> u, ok |-> TRUE],
                     [api |-> "reply", user |-> u, ok |-> TRUE]>>
        /\ logged = <<>>

\* the whole seconds that hold t ticks: t / TicksPerSecond rounded up
CeilSeconds(t) == (t + TicksPerSecond - 1) \div TicksPerSecond

\* C9: the seconds a rejected post is told to wait are cooldown_seconds
\* minus the time since the last accepted post, rounded up to whole
\* seconds.
C9_RemainingIsCeiling ==
    \A u \in Users :
        LET c == CheckMessageCooldown(message_cooldown, u, now,
                                      CooldownSeconds, dbUp)
        IN  (dbUp /\ ~c.can_send)
            => c.remaining
                 = CeilSeconds(CooldownSeconds * Second
                               - (now - message_cooldown[u].last_message))

\* --- the membership gate: joins whose calls may raise, answers, members
\* that leave and rejoin, over minutes
GateSettings ==
    {[DefaultSettings EXCEPT !.anti_flood_enabled = FALSE,
                             !.min_account_age_days = d,
                             !.captcha_policy = p] :
        d \in {0, SpamLinkMinAgeDays}, p \in {PERSISTENT, ALWAYS}}

\* a member without a date, with an account of two days, of ten days
GateAges == {NoDate, 2, 10}

GateSteps == {Minute}

\* the member whose answers are part of the runs
GateAnswerers == {UserOrder[1]}

InitGate == \E s \in GateSettings : InitWith(s, {})

NextGate ==
    \/ NewChatMembers(Users, GateAges, FailSets(JoinApis))
    \/ HandleCaptchaCallback(GateAnswerers, NoFailure)
    \/ LeaveChat(Users)
    \/ Tick(GateSteps)

SpecGate == InitGate /\ [][NextGate]_vars

\* the conversation is moderated and the store reachable
GateOn ==
    /\ dbUp
    /\ chat_settings # NoRec
    /\ chat_settings.enabled

\* the join event of u alone, with an account of age days, handled
Joins(u, age, fails) ==
    NewChatMembersOf(<<[user |-> u, age |-> age, fails |-> fails]>>, fails)

\* the handler of the join of u reaches send_captcha
IssuesChallenge(u, age, fails) ==
    /\ Joins(u, age, fails)
    /\ GateOn
    /\ Called(calls', "send_captcha", u)

\* an account of age days is too young for the conversation
TooYoung(age) ==
    /\ chat_settings.min_account_age_days > 0
    /\ age # NoDate
    /\ age < chat_settings.min_account_age_days

\* C12: a member who joins with a known account age in whole days below
\* min_account_age_days > 0 (7 days and an account of 2 days) is banned
\* and unbanned, user_blocked is logged, and no challenge is issued for
\* the member.
C12_YoungAccountRemovedUnchallenged ==
    [][\A u \in Users, age \in GateAges, fails \in FailSets(JoinApis) :
          (Joins(u, age, fails) /\ GateOn /\ TooYoung(age))
          => /\ BanThenUnban(calls', u)
             /\ KickReturned(fails)
                  => Entries(logged', u, "user_blocked", "young_account") = 1
             /\ ~Called(calls', "send_captcha", u)]_vars

\* C13: with the challenge enabled and the policy always, every join of a
\* member who satisfies the age check issues a challenge, also when the
\* member holds a passed row; the row of the member is then pending with
\* attempts = 0.
C13_AlwaysChallengesEveryJoin ==
    [][\A u \in Users, age \in GateAges, fails \in FailSets(JoinApis) :
          (/\ Joins(u, age, fails)
           /\ GateOn
           /\ chat_settings.captcha_enabled
           /\ chat_settings.captcha_policy = ALWAYS
           /\ ~TooYoung(age))
          => /\ Called(calls', "send_captcha", u)
             /\ Pending(u)'
             /\ user_captcha'[u].attempts = 0]_vars

\* C14: a challenge issued for a member whose row is pending leaves the row
\* of the member pending, with attempts = 0 and expires_at counted from
\* the time of this issue.
C14_ReissueResetsTheRecord ==
    [][\A u \in Users, age \in GateAges, fails \in FailSets(JoinApis) :
          (/\ Joins(u, age, fails)
           /\ GateOn
           /\ Pending(u)
           /\ Returned(calls', "send_captcha", u))
          => /\ Pending(u)'
             /\ user_captcha'[u].attempts = 0
             /\ user_captcha'[u].expires_at
                    = now + CaptchaTimeoutMinutes * Minute]_vars

\* under the persistent policy a challenge has been issued again, a
\* minute after the first, for a member whose row was still pending
C14_Witness ==
    \E u \in Users :
        /\ chat_settings.captcha_policy = PERSISTENT
        /\ Returned(calls, "send_captcha", u)
        /\ Pending(u)
        /\ user_captcha[u].attempts = 0
        /\ user_captcha[u].created_at < now
        /\ user_captcha[u].expires_at = now + CaptchaTimeoutMinutes * Minute

\* C20: a member who joins without an account-creation time is not removed
\* by the age check, whatever min_account_age_days is, and is taken to the
\* challenge or the welcome.
C20_NoDateIsNotRemoved ==
    [][\A u \in Users, fails \in FailSets(JoinApis) :
          (Joins(u, NoDate, fails) /\ GateOn)
          => /\ ~Called(calls', "ban", u)
             /\ inChat'[u]
             /\ \/ Called(calls', "send_captcha", u)
                \/ Called(calls', "send_welcome", u)]_vars

\* a member without a date has joined a conversation that asks for seven
\* days and has been challenged
C20_Witness ==
    \E u \in Users :
        /\ GateOn
        /\ chat_settings.min_account_age_days = SpamLinkMinAgeDays
        /\ inChat[u]
        /\ Entries(logged, u, "new_member", "") = 1
        /\ Called(calls, "send_captcha", u)
        /\ ~Called(calls, "ban", u)

\* --- join events with several members: the calls made for any of them
\* may raise
BatchAges == {NoDate, 2}

BatchFails == FailSets({"ban", "send"})

\* the conversation asks for accounts of seven days
BatchSettings ==
    {st \in GateSettings : st.min_account_age_days = SpamLinkMinAgeDays}

\* the member of the batch whose answers are part of the runs
BatchAnswerers == {UserOrder[2]}

InitBatch == \E s \in BatchSettings : InitWith(s, {})

NextBatch ==
    \/ NewChatMembersBatch(BatchAges, BatchFails)
    \/ HandleCaptchaCallback(BatchAnswerers, NoFailure)
    \/ LeaveChat(Users)

SpecBatch == InitBatch /\ [][NextBatch]_vars

\* the calls of cs made for u, in order
CallsOf(cs, u) == SelectSeq(cs, LAMBDA c : c.user = u)

\* the rows of lg written for u, in order
LoggedOf(lg, u) == SelectSeq(lg, LAMBDA r : r.user = u)

\* what the gate does for the member m when m is the only member of the
\* join event
Alone(m) ==
    GateMember(World(chat_settings, user_captcha,
                     [inChat EXCEPT ![m.user] = TRUE]),
               chat_settings, m.user, m.age, m.fails)

\* C19: every member of a join event is taken through the gate as if the
\* member had joined alone: the calls made and the rows logged for the
\* member and the membership of the member do not depend on what happens,
\* or fails, while the other members of the event are handled.
C19_BatchMembersIndependent ==
    [][\A batch \in Batches(BatchAges, BatchFails),
          fails \in FailSets({"delete"}) :
          (NewChatMembersOf(batch, fails) /\ GateOn)
          => \A k \in DOMAIN batch :
                LET m == batch[k] IN
                /\ CallsOf(calls', m.user) = Alone(m).calls
                /\ LoggedOf(logged', m.user) = Alone(m).logged
                /\ inChat'[m.user] = Alone(m).inChat[m.user]]_vars

\* a join event of two members: a call for the first has raised, and the
\* second has been challenged or welcomed
C19_Witness ==
    /\ \E i \in DOMAIN calls :
          calls[i].user = UserOrder[1] /\ ~calls[i].ok
    /\ Entries(logged, UserOrder[1], "new_member", "") = 1
    /\ Entries(logged, UserOrder[2], "new_member", "") = 1
    /\ \/ Returned(calls, "send_captcha", UserOrder[2])
       \/ Returned(calls, "send_welcome", UserOrder[2])

\* --- the settings of the conversation and a store that comes and goes:
\* a conversation the bot has not seen yet, or one with a row of its own
OutageSettings ==
    {NoRec,
     [DefaultSettings EXCEPT !.captcha_policy = TIME_BASED,
                             !.max_warnings = 2,
                             !.anti_flood_enabled = FALSE]}

OutagePosters == {UserOrder[1]}

InitOutage == \E s \in OutageSettings : InitWith(s, {})

NextOutage ==
    \/ StorageFlip
    \/ NewChatMembers(Users, AccountAges, NoFailure)
    \/ HandleCaptchaCallback(OutagePosters, NoFailure)
    \/ HandleComments(OutagePosters, PlainContent, NoFailure)
    \/ CheckCaptchaExpired(NoFailure)
    \/ Tick(CaptchaSteps)

SpecOutage == InitOutage /\ [][NextOutage]_vars

\* C15: get_chat_settings never answers "no settings": when the store
\* fails it answers the settings of the conversation read before, or the
\* defaults.
C15_PolicyLookupNeverFails ==
    LET g == GetChatSettings(chat_settings, dbUp).ret IN
    /\ g # NoRec
    /\ ~dbUp => g = IF chat_settings # NoRec
                    THEN LoadChatSettings(chat_settings)
                    ELSE DefaultSettings

\* a handler that loads the settings of the conversation
LoadsSettings ==
    \/ \E u \in Users, age \in AccountAges : Joins(u, age, {})
    \/ \E u \in Users : HandleCommentsBy(u, FALSE, NoDate, FALSE, {})

\* C16: the first get_chat_settings of a conversation without a row
\* answers the defaults (enabled, 1 day, 3 warnings, flood control and
\* challenge on, persistent, 10 minutes, 3 attempts, 30 days) with the
\* chat_id of the conversation and stores them; the next lookup reads the
\* same values from the row.
C16_FirstLookupPersistsDefaults ==
    [][(LoadsSettings /\ dbUp /\ chat_settings = NoRec)
       => LET first == GetChatSettings(chat_settings, dbUp).ret
              second == GetChatSettings(chat_settings', dbUp).ret
          IN  /\ first.chat_id = ChatId
              /\ first.enabled
              /\ first.min_account_age_days = 1
              /\ first.max_warnings = 3
              /\ first.anti_flood_enabled
              /\ first.captcha_enabled
              /\ first.captcha_policy = PERSISTENT
              /\ first.captcha_timeout_minutes = 10
              /\ first.captcha_max_attempts = 3
              /\ first.captcha_valid_days = 30
              /\ chat_settings' # NoRec
              /\ second = first]_vars

\* a member has joined a conversation that had no row, the defaults are
\* stored, and the member has been challenged under them
C16_Witness ==
    /\ dbUp
    /\ chat_settings # NoRec
    /\ chat_settings.captcha_policy = PERSISTENT
    /\ chat_settings.max_warnings = 3
    /\ \E u \in Users : Returned(calls, "send_captcha", u)

\* C17: should_show_captcha answers true whenever a storage access of its
\* evaluation fails: the load of the settings, or the lookup of the passed
\* row that the persistent and the time-based policy make.
C17_StorageErrorFailsToChallenge ==
    \A u \in Users, upLoad \in BOOLEAN, upLookup \in BOOLEAN :
        LET g == GetChatSettings(chat_settings, upLoad).ret
            lookupMade == /\ g # NoRec
                          /\ g.captcha_enabled
                          /\ g.captcha_policy # ALWAYS
        IN  (~upLoad \/ (lookupMade /\ ~upLookup))
            => ShouldShowCaptchaWith(chat_settings, user_captcha, u, now,
                                     upLoad, upLookup).ret

\* --- the warning ledger when its storage call raises: one member posting
LedgerFails == FailSets(CommentApis \cup {"add_user_warning"})

NextLedger ==
    \/ NewChatMembers(FloodPosters, OldAccount, NoFailure)
    \/ HandleComments(FloodPosters, PlainContent, LedgerFails)
    \/ Tick(FloodSteps)

SpecLedger == InitFlood /\ [][NextLedger]_vars

\* a plain message of u on which check_flood_control reports flood, handled
\* with the calls of fails raising
FloodEvent(u, fails) ==
    /\ HandleCommentsBy(u, FALSE, NoDate, FALSE, fails)
    /\ FloodOn
    /\ CheckFloodControl(flood_control, u, now, dbUp).ret

C21_FailedWarningReturnsOne ==
    [][\A u \in Users, fails \in LedgerFails :
          (FloodEvent(u, fails) /\ "add_user_warning" \in fails)
          => /\ AddUserWarning(user_warnings, u, FALSE).ret = 1
             /\ Called(calls', "reply", u)
             /\ ~Called(calls', "ban", u)]_vars

\* --- the switch of the conversation: /disable and /enable between joins,
\* answers and messages of one member
SwitchSettings ==
    {DefaultSettings,
     [DefaultSettings EXCEPT !.captcha_enabled = FALSE,
                             !.message_cooldown_enabled = TRUE]}

InitSwitch == \E s \in SwitchSettings : InitWith(s, {})

NextSwitch ==
    \/ SetEnabled(TRUE)
    \/ SetEnabled(FALSE)
    \/ NewChatMembers(FloodPosters, AccountAges, NoFailure)
    \/ HandleCaptchaCallback(FloodPosters, NoFailure)
    \/ HandleComments(FloodPosters, ContentKinds, NoFailure)
    \/ LeaveChat(FloodPosters)
    \/ Tick(CaptchaSteps)

SpecSwitch == InitSwitch /\ [][NextSwitch]_vars

\* the conversation has a settings row whose switch is off
Disabled ==
    /\ dbUp
    /\ chat_settings # NoRec
    /\ ~chat_settings.enabled

\* C22: while the settings of the conversation have enabled = false, a
\* join event and a content event make no Bot API call (no removal, no
\* challenge, no welcome, no message deletion), log nothing and change no
\* row of user_captcha, flood_control, message_cooldown and user_warnings.
C22_DisabledMeansNoEffect ==
    [][\A u \in Users :
          (/\ Disabled
           /\ \/ \E age \in AccountAges : Joins(u, age, {})
              \/ \E m \in ContentKinds :
                    HandleCommentsBy(u, m.is_comment, m.age, m.spam, {}))
          => /\ calls' = <<>>
             /\ logged' = <<>>
             /\ inChat'[u]
             /\ UNCHANGED <<chat_settings, user_captcha, flood_control,
                            message_cooldown, user_warnings>>]_vars

\* a join has been handled while the switch was off: with the challenge
\* switched on, a member who joined a moderated conversation has a row in
\* user_captcha or has been removed, and this member has neither
C22_Witness ==
    \E u \in Users :
        /\ Disabled
        /\ chat_settings.captcha_enabled
        /\ inChat[u]
        /\ user_captcha[u] = NoRec
        /\ now = 0
        /\ calls = <<>>
        /\ logged = <<>>

\* --- a conversation whose challenge settings are not the defaults: joins,
\* answers, messages and the sweeper
ShortTimeoutMinutes == 5

FewAttempts == 2

TimeoutSettings ==
    {[DefaultSettings EXCEPT !.anti_flood_enabled = FALSE,
                             !.captcha_timeout_minutes = t,
                             !.captcha_max_attempts = m] :
        t \in {ShortTimeoutMinutes, CaptchaTimeoutMinutes},
        m \in {FewAttempts, DefaultMaxAttempts}}

TimeoutSteps == {ShortTimeoutMinutes * Minute + Second}

InitTimeout == \E s \in TimeoutSettings : InitWith(s, {})

NextTimeout ==
    \/ NewChatMembers(Users, AccountAges, NoFailure)
    \/ HandleCaptchaCallback(Users, NoFailure)
    \/ HandleComments(Users, PlainContent, NoFailure)
    \/ CheckCaptchaExpired(NoFailure)
    \/ Tick(TimeoutSteps)

SpecTimeout == InitTimeout /\ [][NextTimeout]_vars

\* C23: the row a challenge creates takes its parameters from the settings
\* of the conversation: expires_at is the time of issue plus
\* captcha_timeout_minutes and max_attempts is captcha_max_attempts, for
\* every value of the two settings.
C23_RecordFollowsSettings ==
    [][\A u \in Users, age \in AccountAges :
          IssuesChallenge(u, age, {})
          => /\ user_captcha'[u].expires_at
                  = now + chat_settings.captcha_timeout_minutes * Minute
             /\ user_captcha'[u].max_attempts
                  = chat_settings.captcha_max_attempts]_vars

\* what the code does: ten minutes and three attempts whatever the
\* settings say
C23_RecordIsHardCoded ==
    [][\A u \in Users, age \in AccountAges :
          IssuesChallenge(u, age, {})
          => /\ user_captcha'[u].expires_at
                  = now + CaptchaTimeoutMinutes * Minute
             /\ user_captcha'[u].max_attempts = DefaultMaxAttempts]_vars

\* --- the order of send_captcha, under the joins of the membership gate
\* C24: when a challenge is issued the pending row is stored before the
\* challenge message is sent and before the member is restricted, so that
\* a send or a restriction that raises leaves the pending row in place.
C24_RecordStoredBeforeDelivery ==
    [][\A u \in Users, age \in GateAges, fails \in FailSets(JoinApis) :
          IssuesChallenge(u, age, fails)
          => /\ user_captcha'[u] # NoRec
             /\ ~user_captcha'[u].captcha_passed
             /\ user_captcha'[u].attempts = 0
             /\ user_captcha'[u].expires_at
                  = now + CaptchaTimeoutMinutes * Minute]_vars

\* the half of C24 the code does: a restriction that raises leaves the
\* pending row in place
C24_RecordSurvivesRestriction ==
    [][\A u \in Users, age \in GateAges :
          IssuesChallenge(u, age, {"restrict"})
          => /\ ~Returned(calls', "restrict", u)
             /\ user_captcha'[u] # NoRec
             /\ ~user_captcha'[u].captcha_passed]_vars

\* --- the flood branch when its calls raise, under the posts of SpecFlood
\* C25: for every content event on which check_flood_control reports
\* flood, add_user_warning is called exactly once for the member, whether
\* message.delete(), the notice and the ban return or raise.
C25_WarnsOncePerFloodEvent ==
    [][\A u \in Users, fails \in FailSets(CommentApis) :
          FloodEvent(u, fails)
          => user_warnings'[u] = user_warnings[u] + 1]_vars

\* what the code does: the warning is added exactly when message.delete()
\* has returned
C25_WarnsOnlyAfterDelete ==
    [][\A u \in Users, fails \in FailSets(CommentApis) :
          FloodEvent(u, fails)
          => user_warnings'[u]
                 = user_warnings[u] + IF "delete" \in fails THEN 0 ELSE 1]_vars

\* --- two workers on one store: the storage calls of the events of one
\* member, statement by statement
PlainSettings == {DefaultSettings}

InitPlain == \E s \in PlainSettings : InitWith(s, {})

NextRace ==
    \/ NewChatMembers(FloodPosters, {NoDate}, NoFailure)
    \/ \E w \in Workers, u \in FloodPosters : BeginFloodCheck(w, u)
    \/ \E w \in Workers : EndFloodCheck(w)
    \/ \E u \in FloodPosters : WrongAnswerCall(u)
    \/ \E u \in FloodPosters : WarningCall(u)

SpecRace == InitPlain /\ [][NextRace]_vars

\* no storage call is under way
Quiet == \A w \in Workers : inflight[w] = Idle

\* the counters of u as the tables hold them
StoredCounts(u) ==
    [flood |-> IF flood_control[u] = NoRec THEN 0
               ELSE flood_control[u].message_count,
     wrong |-> IF user_captcha[u] = NoRec THEN 0
               ELSE user_captcha[u].attempts,
     warned |-> user_warnings[u]]

\* C26: no update is lost when the events of one member are handled side
\* by side: once the N calls of every kind have returned, in whatever
\* order their statements ran, message_count, attempts and warnings_count
\* have each grown by exactly N.
C26_NoLostUpdate ==
    \A u \in FloodPosters : Quiet => StoredCounts(u) = handled[u]

\* the counters whose call is one statement lose nothing
C26_AtomicCountersLoseNothing ==
    \A u \in FloodPosters :
        /\ StoredCounts(u).wrong = handled[u].wrong
        /\ StoredCounts(u).warned = handled[u].warned

\* --- an event that is delivered a second time: one member who joins,
\* answers and posts, the challenge and the flood control both on
NextRedelivery ==
    \/ NewChatMembers(FloodPosters, {NoDate}, NoFailure)
    \/ HandleCaptchaCallback(FloodPosters, NoFailure)
    \/ HandleComments(FloodPosters, PlainContent, NoFailure)

SpecRedelivery == InitPlain /\ [][NextRedelivery]_vars

\* the stored state a second delivery of the content event of this step
\* leaves, the first delivery having been handled
ContentRedelivered(u, m) ==
    CommentsResult(Tables', u, m.is_comment, m.age, m.spam, {})

\* the user_captcha table a second delivery of the wrong answer of this
\* step leaves
WrongAnswerRedelivered(u) ==
    IncrementCaptchaAttempts(user_captcha', u, dbUp).cap

\* C27: an event that is delivered twice leaves the stored state that one
\* delivery leaves: the second delivery of a content event raises neither
\* the flood count nor the warning count, and the second delivery of a
\* wrong answer does not raise attempts.
C27_RedeliveryChangesNothing ==
    [][\A u \in Users :
          /\ \A m \in PlainContent :
                HandleCommentsBy(u, m.is_comment, m.age, m.spam, {})
                => /\ ContentRedelivered(u, m).fl = flood_control'
                   /\ ContentRedelivered(u, m).warn = user_warnings'
          /\ CaptchaBot(u, u, {})
                => WrongAnswerRedelivered(u) = user_captcha']_vars

\* what the code does with the second delivery of a wrong answer to a row
\* that is there: attempts is raised once more
C27_WrongAnswerCountsTwice ==
    [][\A u \in Users :
          (CaptchaBot(u, u, {}) /\ user_captcha[u] # NoRec)
          => WrongAnswerRedelivered(u)[u].attempts
                 = user_captcha[u].attempts + 2]_vars

\* and with the second delivery of a message that reaches the flood
\* check: message_count is raised once more
C27_MessageCountsTwice ==
    [][\A u \in Users, m \in PlainContent :
          (/\ HandleCommentsBy(u, m.is_comment, m.age, m.spam, {})
           /\ flood_control'[u] # flood_control[u])
          => ContentRedelivered(u, m).fl[u].message_count
                 = flood_control'[u].message_count + 1]_vars

\* --- the flood window: two members posting, the clock advancing by the
\* window or by half a second more
WindowSettings ==
    {[DefaultSettings EXCEPT !.captcha_enabled = FALSE]}

WindowSteps == {FloodWindowSeconds * Second, FloodWindowSeconds * Second + 1}

InitWindow == \E s \in WindowSettings : InitWith(s, {})

NextWindow ==
    \/ NewChatMembers(Users, OldAccount, NoFailure)
    \/ HandleComments(Users, PlainContent, NoFailure)
    \/ Tick(WindowSteps)

SpecWindow == InitWindow /\ [][NextWindow]_vars

\* a plain message of u is checked by check_flood_control
Checked(u) ==
    /\ HandleCommentsBy(u, FALSE, NoDate, FALSE, {})
    /\ FloodOn

\* the previous checked message of u is at most the window back
GapWithinWindow(u) ==
    /\ flood_control[u] # NoRec
    /\ now - flood_control[u].last_message <= FloodWindowSeconds * Second

PassedSteps == {Minute, CaptchaTimeoutMinutes * Minute + Second}

InitPassed == \E s \in CaptchaSettings : InitWith(s, Users)

NextPassed ==
    \/ NewChatMembers(Users, {NoDate}, NoFailure)
    \/ \E u \in Users : CaptchaVerify(u, u, {})
    \/ HandleComments(Users, PlainContent, NoFailure)
    \/ CheckCaptchaExpired(NoFailure)
    \/ Tick(PassedSteps)

SpecPassed == InitPassed /\ [][NextPassed]_vars

\* u has answered the challenge correctly; under NextPassed no challenge
\* has been issued to u since
HasPassed(u) == u \in DOMAIN passedAt /\ passedAt[u] >= 0

\* the captcha check of handle_comments rejects the message of u: with
\* the other checks passing a plain message, it is the only one to delete
BlockedByVerification(u) ==
    /\ HandleCommentsBy(u, FALSE, NoDate, FALSE, {})
    /\ GateOn
    /\ chat_settings.captcha_enabled
    /\ Called(calls', "delete", u)

\* C29: a content event of a member whose challenge was answered
\* correctly is never blocked or deleted by the captcha check of
\* handle_comments, at any later time and whatever was handled in
\* between, as long as no new challenge has been issued to the member.
C29_PassedIsNeverBlocked ==
    [][\A u \in Users : HasPassed(u) => ~BlockedByVerification(u)]_vars

\* what the code does: the member is heard until the expires_at of the
\* challenge, ten minutes after it was issued
C29_PassedIsHeardForTenMinutes ==
    [][\A u \in Users :
          (/\ HasPassed(u)
           /\ user_captcha[u] # NoRec
           /\ user_captcha[u].expires_at >= now)
          => ~BlockedByVerification(u)]_vars

\* --- the sweeper under fair scheduling: joins, messages and comments,
\* and the job running again and again as run_repeating has it run
SweepSettings ==
    {[DefaultSettings EXCEPT !.anti_flood_enabled = FALSE,
                             !.captcha_policy = p] :
        p \in {PERSISTENT, TIME_BASED, ALWAYS}}

InitSweep == \E s \in SweepSettings : InitWith(s, {})

NextSweep ==
    \/ NewChatMembers(Users, AccountAges, NoFailure)
    \/ HandleComments(Users, ContentKinds, FailSets({"delete"}))
    \/ CheckCaptchaExpired(NoFailure)
    \/ Tick(CaptchaSteps)

\* the job queue runs check_captcha_expired every 60 seconds
SpecSweep ==
    /\ InitSweep
    /\ [][NextSweep]_vars
    /\ WF_vars(CheckCaptchaExpired(NoFailure))

\* the job has just removed u for the timeout of the challenge
TimedOut(u) ==
    /\ ~inChat[u]
    /\ Entries(logged, u, "user_banned", "captcha_timeout") > 0

\* C30: every challenge that is still pending after its expires_at leads
\* to the timeout: with the job scheduled fairly the member is removed and
\* captcha_timeout is logged, whatever joins and messages of any member
\* are handled between the expiry and the next run of the job.
C30_ExpiredPendingIsSweptEventually ==
    \A u \in Users : PendingExpired(u) ~> TimedOut(u)

\* what the code guarantees: a pending challenge past its expires_at does
\* not stay; it is swept, or a check of some event deletes the row
C30_ExpiredPendingGoesAway ==
    \A u \in Users :
        PendingExpired(u) ~> (TimedOut(u) \/ user_captcha[u] = NoRec)

\* --- wrong answers beyond the limit: members who join and answer, the
\* ban of the removal raising or returning
MaxAttemptsOver == DefaultMaxAttempts + 1

NextAttempts ==
    \/ NewChatMembers(Users, {NoDate}, NoFailure)
    \/ \E u \in Users : CaptchaVerify(u, u, {})
    \/ \E u \in Users, fails \in FailSets({"ban"}) :
          CaptchaBotWithin(MaxAttemptsOver, u, u, fails)
    \/ CheckCaptchaExpired(NoFailure)
    \/ Tick(CaptchaSteps)

SpecAttempts == Init /\ [][NextAttempts]_vars

\* C31: in every reachable state every row of user_captcha has
\* attempts <= max_attempts: a wrong answer that would exceed the limit
\* removes the member and never leaves a row with attempts > max_attempts.
C31_AttemptsWithinLimit ==
    \A u \in Users :
        user_captcha[u] # NoRec
            => user_captcha[u].attempts <= user_captcha[u].max_attempts

\* --- the abuse checks when their storage calls fail: a conversation with
\* the cooldown and the flood control on, a member who posts, storage
\* calls of the two checks that raise, and a store that comes and goes
AbuseSettings ==
    {[DefaultSettings EXCEPT !.captcha_enabled = FALSE,
                             !.message_cooldown_enabled = TRUE]}

AbuseStorage == {"check_message_cooldown", "check_flood_control"}

InitAbuse == \E s \in AbuseSettings : InitWith(s, {})

NextAbuse ==
    \/ StorageFlip
    \/ NewChatMembers(FloodPosters, OldAccount, NoFailure)
    \/ HandleComments(FloodPosters, ContentKinds, SUBSET AbuseStorage)
    \/ CheckCaptchaExpired(NoFailure)
    \/ Tick({Second})

SpecAbuse == InitAbuse /\ [][NextAbuse]_vars

\* the tables with the checks whose storage call fails switched off
WithoutChecks(fails) ==
    [Tables EXCEPT
        !.row = [@ EXCEPT
            !.message_cooldown_enabled =
                @ /\ "check_message_cooldown" \notin fails,
            !.anti_flood_enabled =
                @ /\ "check_flood_control" \notin fails]]

WrongAnswerOf(u) ==
    \E fails \in FailSets({"ban"}) :
        CaptchaBotWithin(MaxAttemptsOver, u, u, fails)

\* the row of member u says the challenge has been passed
Passed(u) == user_captcha[u] # NoRec /\ user_captcha[u].captcha_passed

\* C33: a passed challenge is final: a wrong answer of the member after the
\* row has been marked as passed (a late or repeated captcha_bot_ callback)
\* neither removes the member nor changes the row, its attempts included.
C33_PassedIsTerminal ==
    [][\A u \in Users :
          (Passed(u) /\ WrongAnswerOf(u))
          => /\ inChat'[u] = inChat[u]
             /\ user_captcha'[u] = user_captcha[u]]_vars

\* the weaker half of it: the wrong answer of a member who has passed does
\* not remove that member
C33_PassedMemberStays ==
    [][\A u \in Users : (Passed(u) /\ WrongAnswerOf(u)) => inChat'[u]]_vars

\* --- the job side by side with the answers: check_captcha_expired
\* fetches the expired rows and then awaits the Bot API for one row after
\* the other; the handler of an answer runs while the job awaits

\* check_captcha_expired up to fetchall()
SelectExpired ==
    LET expired == ExpiredCaptchas(user_captcha, now)
        Selected(u) == u \in expired
    IN  /\ dbUp
        /\ expired_captchas = <<>>
        /\ expired # {}
        /\ expired_captchas' = SelectSeq(UserOrder, Selected)
        /\ calls' = <<>>
        /\ logged' = <<>>
        /\ UNCHANGED <<now, ticks, dbUp, chat_settings, user_captcha,
                       flood_control, message_cooldown, user_warnings,
                       inChat, passedAt, inflight, handled>>

\* one pass of the loop over the fetched rows, for the row of u
HandleExpiredOf(u, fails) ==
    /\ expired_captchas # <<>>
    /\ u = Head(expired_captchas)
    /\ user_captcha' = SweepOneRow(user_captcha, u, fails)
    /\ inChat' = [inChat EXCEPT ![u] = IF "ban" \in fails THEN @ ELSE FALSE]
    /\ calls' = SweepOneCalls(u, fails)
    /\ logged' = IF SweepOneReturned(fails)
                 THEN LogAction(<<>>, dbUp, u, "user_banned",
                                "captcha_timeout")
                 ELSE <<>>
    /\ expired_captchas' = Tail(expired_captchas)
    /\ UNCHANGED <<now, ticks, dbUp, chat_settings, flood_control,
                   message_cooldown, user_warnings, passedAt, inflight,
                   handled>>

HandleExpired(Fails) ==
    \E u \in Users, fails \in Fails : HandleExpiredOf(u, fails)

NextOverlap ==
    \/ NewChatMembers(Users, {NoDate}, NoFailure)
    \/ \E u \in Users : CaptchaVerify(u, u, {})
    \/ \E u \in Users : CaptchaBot(u, u, {})
    \/ SelectExpired
    \/ HandleExpired(FailSets({"ban"}))
    \/ Tick(CaptchaSteps)

SpecOverlap == InitPlain /\ [][NextOverlap]_vars

\* C34: a member whose correct answer has been committed (the row is
\* marked as passed) is never removed by the timeout of that challenge,
\* however handle_captcha_callback and a run of check_captcha_expired
\* interleave, also when the job had fetched the row as expired before the
\* answer was committed.
C34_PassedIsNotTimedOut ==
    [][\A u \in Users, fails \in FailSets({"ban"}) :
          (Passed(u) /\ inChat[u] /\ HandleExpiredOf(u, fails))
          => inChat'[u]]_vars

\* what the job does keep: it fetches no row that is marked as passed
C34_PassedIsNotSelected ==
    [][SelectExpired
       => \A i \in DOMAIN expired_captchas' :
             ~Passed(expired_captchas'[i])]_vars

\* the tables with the challenge of the conversation switched off
WithoutVerification == [Tables EXCEPT !.row.captcha_enabled = FALSE]

\* the content event m of member u is handled as it is without the
\* captcha check: the same Bot API calls and the same rows logged
HeardAsUnverified(u, m) ==
    LET r == CommentsResult(WithoutVerification, u, m.is_comment, m.age,
                            m.spam, {})
    IN  /\ calls' = r.calls
        /\ logged' = r.logged

\* C35: a content event of a member who has no row in user_captcha (never
\* challenged, for example a member who joined before the challenge was
\* switched on) is not blocked or deleted by the captcha check of
\* handle_comments: only a pending challenge blocks posting.
C35_NoRecordIsNotBlocked ==
    [][\A u \in Users, m \in ContentKinds :
          (/\ dbUp
           /\ chat_settings # NoRec
           /\ user_captcha[u] = NoRec
           /\ HandleCommentsBy(u, m.is_comment, m.age, m.spam, {}))
          => HeardAsUnverified(u, m)]_vars

\* the same before any challenge can have expired: the member has not been
\* challenged at all
C35_NeverChallengedIsNotBlocked ==
    [][\A u \in Users, m \in ContentKinds :
          (/\ dbUp
           /\ chat_settings # NoRec
           /\ user_captcha[u] = NoRec
           /\ now = 0
           /\ HandleCommentsBy(u, m.is_comment, m.age, m.spam, {}))
          => HeardAsUnverified(u, m)]_vars

\* C36: a join of a member whose known account age in whole days is below
\* min_account_age_days emits no welcome and issues no challenge for the
\* member, whether the ban and the unban of the removal return or raise.
C36_YoungAccountIsNeverAdmitted ==
    [][\A u \in Users, age \in GateAges, fails \in FailSets(JoinApis) :
          (Joins(u, age, fails) /\ GateOn /\ TooYoung(age))
          => /\ ~Called(calls', "send_captcha", u)
             /\ ~Called(calls', "send_welcome", u)
             /\ user_captcha'[u] = user_captcha[u]]_vars

\* --- the policy of the challenge, selected with the settings buttons
\* captcha_policy_persistent, captcha_policy_time_based and
\* captcha_policy_always
Policies == {PERSISTENT, TIME_BASED, ALWAYS}

\* data.split("_") of the callback data "captcha_policy_" + p: the fields
\* between the underscores, those of the name of the policy included
SplitPolicyData(p) ==
    <<"captcha", "policy">>
    \o (IF p = TIME_BASED THEN <<"time", "based">> ELSE <<p>>)

\* policy = data.split("_")[2]
SelectedPolicy(p) == SplitPolicyData(p)[3]

\* button_handler for data = "captcha_policy_" + p
SetCaptchaPolicy(p) ==
    LET g == GetChatSettings(chat_settings, dbUp)
    IN  /\ g.ret # NoRec
        /\ chat_settings' =
              SaveChatSettings([g.ret EXCEPT
                                   !.captcha_policy = SelectedPolicy(p)])
        /\ calls' = <<ApiCall("answer", 0, {}), ApiCall("edit", 0, {})>>
        /\ logged' = <<>>
        /\ UNCHANGED <<now, ticks, dbUp, user_captcha, flood_control,
                       message_cooldown, user_warnings, inChat, passedAt, race>>

\* the rule should_show_captcha applies to a stored policy value: its
\* if / elif / else over CaptchaPolicy
PolicyRule(policy) ==
    IF policy = ALWAYS THEN ALWAYS
    ELSE IF policy = TIME_BASED THEN TIME_BASED
    ELSE PERSISTENT

NextSelect ==
    \/ \E p \in Policies : SetCaptchaPolicy(p)
    \/ NewChatMembers(Users, {NoDate}, NoFailure)
    \/ \E u \in Users : CaptchaVerify(u, u, {})
    \/ LeaveChat(Users)
    \/ Tick(CaptchaSteps)

SpecSelect == InitPlain /\ [][NextSelect]_vars

\* C37: selecting a policy with the settings callback captcha_policy_<p>,
\* p one of persistent, time_based and always, stores exactly the value p,
\* and should_show_captcha then evaluates joins under the rule of p.
C37_SelectedPolicyIsStored ==
    [][\A p \in Policies :
          SetCaptchaPolicy(p)
          => /\ chat_settings'.captcha_policy = p
             /\ PolicyRule(LoadChatSettings(chat_settings').captcha_policy)
                    = p]_vars

\* what the code keeps: the two policies whose name has no underscore
C37_OneWordPolicyIsStored ==
    [][\A p \in {PERSISTENT, ALWAYS} :
          SetCaptchaPolicy(p)
          => /\ chat_settings'.captcha_policy = p
             /\ PolicyRule(LoadChatSettings(chat_settings').captcha_policy)
                    = p]_vars

\* --- a restart of the process: DatabaseManager() runs init_db,
\* recreate_table_properly and update_database_schema on the stored tables

\* recreate_table_properly: chat_settings_temp is created with the columns
\* up to message_cooldown_enabled, the rows are copied column by column,
\* chat_settings is dropped and chat_settings_temp takes its name
RecreateTableProperly(row) ==
    IF row = NoRec THEN NoRec
    ELSE [c \in {"chat_id", "welcome_message", "min_account_age_days",
                 "delete_service_messages", "enabled", "max_warnings",
                 "anti_flood_enabled", "protect_comments",
                 "message_cooldown_enabled"} |-> row[c]]

\* update_database_schema: ALTER TABLE ... ADD COLUMN with its DEFAULT for
\* every column of the list that the table does not have; the rows get the
\* default, which is the value of the default settings
UpdateDatabaseSchema(row) ==
    IF row = NoRec THEN NoRec
    ELSE [c \in DOMAIN row \cup
                {"protect_comments", "message_cooldown_enabled",
                 "captcha_enabled", "captcha_timeout_minutes",
                 "captcha_max_attempts", "captcha_policy",
                 "captcha_valid_days"} |->
             IF c \in DOMAIN row THEN row[c] ELSE DefaultSettings[c]]

\* the process stops and starts again: what it held in memory is gone,
\* init_db finds its tables (CREATE TABLE IF NOT EXISTS), and the table of
\* the settings is rebuilt
Restart ==
    /\ dbUp
    /\ chat_settings' =
          UpdateDatabaseSchema(RecreateTableProperly(chat_settings))
    /\ inflight' = [w \in Workers |-> Idle]
    /\ expired_captchas' = <<>>
    /\ calls' = <<>>
    /\ logged' = <<>>
    /\ UNCHANGED <<now, ticks, dbUp, user_captcha, flood_control,
                   message_cooldown, user_warnings, inChat, passedAt,
                   handled>>

NextRestart ==
    \/ Restart
    \/ \E p \in Policies : SetCaptchaPolicy(p)
    \/ SetEnabled(TRUE)
    \/ SetEnabled(FALSE)
    \/ NewChatMembers(Users, {NoDate}, NoFailure)
    \/ \E u \in Users : CaptchaVerify(u, u, {})
    \/ Tick(CaptchaSteps)

SpecRestart == InitPlain /\ [][NextRestart]_vars

\* C38: a restart of the process (DatabaseManager(): init_db,
\* recreate_table_properly, update_database_schema) leaves the stored
\* settings of every conversation unchanged in all fields, captcha_enabled,
\* captcha_policy, captcha_timeout_minutes, captcha_max_attempts and
\* captcha_valid_days included; settings change only through the settings
\* operations.
C38_RestartKeepsSettings ==
    [][Restart => chat_settings' = chat_settings]_vars

\* what the code keeps: the columns the rebuilt table is copied with
C38_RestartKeepsCopiedColumns ==
    [][(Restart /\ chat_settings # NoRec)
       => /\ chat_settings'.enabled = chat_settings.enabled
          /\ chat_settings'.min_account_age_days
                 = chat_settings.min_account_age_days
          /\ chat_settings'.max_warnings = chat_settings.max_warnings
          /\ chat_settings'.anti_flood_enabled
                 = chat_settings.anti_flood_enabled
          /\ chat_settings'.message_cooldown_enabled
                 = chat_settings.message_cooldown_enabled
          /\ DOMAIN chat_settings' = DOMAIN chat_settings]_vars

=============================================================================
